---- MODULE Spec2Model ----
(***************************************************************************)
(* A model of the multi-project extraction pipeline of src/app.py:         *)
(* clean_document, clean_pages and parse_pdf_document.                     *)
(*                                                                         *)
(* Python values are modelled as tagged JSON values, a text that is sent   *)
(* to or received from the extraction capability as a Text (either not     *)
(* valid JSON, or the serialisation of a JSON value), and a float progress *)
(* value as an exact fraction <<numerator, denominator>>.                  *)
(***************************************************************************)
EXTENDS Integers, Sequences, FiniteSets, TLC

VARIABLES
    pc,                 \* position of parse_pdf_document
    credential,         \* st.secrets as seen by the run
    events,             \* calls of progress_callback, in order: [progress, status]
    log,                \* lines written by print inside the per-project loop
    calls,              \* calls made to the external capability, with their results
    ocr_response,       \* local ocr_response (OCR pages)
    project_list_json,  \* local project_list_json (a Text)
    projects,           \* local projects (the list under "Liste")
    idx,                \* loop index of enumerate(projects), 0-based
    parsed_data,        \* local parsed_data
    outcome,            \* how the call of parse_pdf_document ended
    nDoc, nStart, nEnd, \* arguments given to the page normalizer
    nAll, nOut,         \* clean_document(nDoc) and clean_pages(nDoc, nStart, nEnd)
    session_state,      \* st.session_state: a dict, held as a function of its keys
    mpc,                \* position of the script (main) in the session
    filename            \* argument filename of process_uploaded_file

pipelineVars == <<pc, credential, events, log, calls, ocr_response,
                  project_list_json, projects, idx, parsed_data, outcome>>
normVars == <<nDoc, nStart, nEnd, nAll, nOut>>
sessionVars == <<session_state, mpc, filename>>
vars == <<pc, credential, events, log, calls, ocr_response, project_list_json,
          projects, idx, parsed_data, outcome, nDoc, nStart, nEnd, nAll, nOut,
          session_state, mpc, filename>>

(***************************************************************************)
(* Bounds of the model.                                                    *)
(***************************************************************************)
MaxCandidates == 2      \* longest candidate list returned by the list extractor
MaxPages == 2           \* longest OCR page sequence given to the normalizer
MaxIndex == 2           \* largest OCR page index given to the normalizer
MaxLongList == 3        \* longest candidate list of the runs over long lists

(***************************************************************************)
(* JSON values and Python's view of them.                                  *)
(***************************************************************************)
JNull == [t |-> "null"]
JInt(n) == [t |-> "int", v |-> n]
JStr(s) == [t |-> "str", v |-> s]
JArray(s) == [t |-> "array", v |-> s]
JObj(d) == [t |-> "object", v |-> d]
\* a str held as the sequence of its parts (a prompt and what is injected into it)
JText(parts) == [t |-> "text", v |-> parts]

\* bool(v) as used by `not v`
Truthy(v) ==
    CASE v.t = "null" -> FALSE
      [] v.t = "int" -> v.v # 0
      [] v.t = "str" -> v.v # ""
      [] v.t = "text" -> Len(v.v) # 0
      [] v.t = "array" -> Len(v.v) # 0
      [] v.t = "object" -> DOMAIN v.v # {}

\* d.get(k, default) on a dict held as a function
DictGet(d, k, default) == IF k \in DOMAIN d THEN d[k] ELSE default

\* d[k] = v on a dict held as a function
DictSet(d, k, v) == [x \in DOMAIN d \cup {k} |-> IF x = k THEN v ELSE d[x]]

\* json.dumps(v): the text that serialises v
JsonDumps(v) == [valid |-> TRUE, value |-> v]

\* a text that is not valid JSON
InvalidText == [valid |-> FALSE]

\* json.loads(text): the value, or JSONDecodeError
JsonLoads(text) ==
    IF text.valid THEN [raised |-> FALSE, value |-> text.value]
    ELSE [raised |-> TRUE, msg |-> "Expecting value: line 1 column 1 (char 0)"]

(***************************************************************************)
(* Progress values: exact fractions.                                       *)
(***************************************************************************)
Frac(n, d) == <<n, d>>
FracLeq(a, b) == a[1] * b[2] <= b[1] * a[2]
FracEq(a, b) == a[1] * b[2] = b[1] * a[2]

(***************************************************************************)
(* Page normalizer.                                                        *)
(***************************************************************************)
\* the list comprehension of clean_document / clean_pages over a page list
TransformPages(pages) ==
    [i \in 1..Len(pages) |->
        [page_number |-> pages[i].index + 1, content |-> pages[i].markdown]]

clean_document(resp) == JsonDumps([pages |-> TransformPages(resp.pages)])

\* start_page <= (page.index + 1) <= end_page, a chained comparison: the second
\* comparison is evaluated only when the first is true. A bound that is not a
\* number makes the comparison it takes part in raise TypeError.
InRangeRaises(page, start_page, end_page) ==
    \/ start_page.t # "int"
    \/ /\ start_page.v <= page.index + 1
       /\ end_page.t # "int"

\* InRange comparing the 0-based index with the 1-based bounds
InRangeZeroBased(page, start_page, end_page) ==
    /\ start_page.v <= page.index
    /\ page.index <= end_page.v

InRange(page, start_page, end_page) ==
    /\ start_page.v <= page.index + 1
    /\ page.index + 1 <= end_page.v

clean_pages(resp, start_page, end_page) ==
    IF \E i \in 1..Len(resp.pages) : InRangeRaises(resp.pages[i], start_page, end_page)
    THEN [raised |-> TRUE, msg |-> "'<=' not supported between instances"]
    ELSE LET filtered_pages ==
                 SelectSeq(resp.pages, LAMBDA page : InRange(page, start_page, end_page))
         IN  [raised |-> FALSE,
              value |-> JsonDumps([pages |-> TransformPages(filtered_pages)])]

(***************************************************************************)
(* Schema and prompt loader.                                               *)
(***************************************************************************)
\* what a load finds at the path: no file, a file that cannot be read or parsed, a
\* good file
FileStates == {"missing", "unreadable", "ok"}

\* load_schema: None when the file is missing or json.load raises
load_schema(schema_name, file) ==
    IF file = "missing" THEN JNull
    ELSE IF file = "unreadable" THEN JNull
    ELSE JObj([title |-> JStr(schema_name)])

\* the literal placeholder token of a prompt file
Placeholder == [hole |-> "{{ SCHEMA_JSON }}"]

\* the content of a prompt file: text around one placeholder
PromptFile(prompt_name) == <<[lit |-> prompt_name], Placeholder, [lit |-> "Document:"]>>

\* prompt_content.replace("{{ SCHEMA_JSON }}", schema_json)
ReplacePlaceholder(parts, schema_json) ==
    [i \in DOMAIN parts |->
        IF parts[i] = Placeholder THEN [injected |-> schema_json] ELSE parts[i]]

\* load_prompt: None when the file is missing or cannot be read, else its content,
\* with the schema injected when a schema is given
load_prompt(prompt_name, file, schema) ==
    IF file = "missing" THEN JNull
    ELSE IF file = "unreadable" THEN JNull
    ELSE IF schema # JNull
    THEN JText(ReplacePlaceholder(PromptFile(prompt_name), JsonDumps(schema)))
    ELSE JText(PromptFile(prompt_name))

\* st.session_state after main has loaded the four files
LoadedConfig ==
    LET REXSchema == load_schema("REX.schema.json", "ok")
        REXListSchema == load_schema("REXlist.schema.json", "ok")
    IN  [REXSchema |-> REXSchema,
         REXListSchema |-> REXListSchema,
         REXPrompt |-> load_prompt("REXPrompt.md", "ok", REXSchema),
         listPrompt |-> load_prompt("listPrompt.md", "ok", REXListSchema)]

(***************************************************************************)
(* What the environment can hand to one run of parse_pdf_document.         *)
(***************************************************************************)
\* st.secrets['MISTRAL_API_KEY']: no such key, an empty value, a usable key
Credentials == {"absent", "empty", "ok"}

\* an external call returns, or raises with a message
Returned(v) == [raised |-> FALSE, value |-> v]
Raised(m) == [raised |-> TRUE, msg |-> m]
ApiErrors == {"API error: status 401", "Request timed out"}

Page(i, md) == [index |-> i, markdown |-> md]

\* OCR results: no page at all, and a document of three pages
OcrDocuments ==
    { [pages |-> <<>>],
      [pages |-> <<Page(0, "page one"), Page(1, "page two"), Page(2, "page three")>>] }

\* candidates as the list model may return them
CandidateA == JObj([Titre |-> JStr("A"), PageDebut |-> JInt(1), PageFin |-> JInt(3)])
CandidateB == JObj([Titre |-> JStr("B"), PageDebut |-> JInt(0), PageFin |-> JInt(5)])
CandidateNoEnd == JObj([Titre |-> JStr("C"), PageDebut |-> JInt(2)])
CandidateUntitled == JObj([PageDebut |-> JInt(3), PageFin |-> JInt(1)])
CandidateBeyond == JObj([Titre |-> JStr("E"), PageDebut |-> JInt(7), PageFin |-> JInt(9)])
CandidateTextPage == JObj([Titre |-> JStr("F"), PageDebut |-> JStr("2"), PageFin |-> JInt(3)])

Candidates ==
    {CandidateA, CandidateB, CandidateNoEnd, CandidateUntitled, CandidateBeyond,
     CandidateTextPage}

RECURSIVE SeqsUpTo(_, _)
SeqsUpTo(S, n) ==
    IF n = 0 THEN {<<>>}
    ELSE LET shorter == SeqsUpTo(S, n - 1)
         IN  shorter \cup {Append(s, x) : s \in {q \in shorter : Len(q) = n - 1}, x \in S}

\* texts the list-extraction call may return
ListResponses ==
    {InvalidText,
     JsonDumps(JArray(<<>>)),
     JsonDumps(JObj([Autre |-> JStr("x")])),
     JsonDumps(JObj([Liste |-> JNull])),
     JsonDumps(JObj([Liste |-> JInt(1)]))}
    \cup {JsonDumps(JObj([Liste |-> JArray(l)])) : l \in SeqsUpTo(Candidates, MaxCandidates)}

\* texts the per-project extraction call may return
PlainRecord == [presentation |-> JStr("texte")]
ClashingRecord ==
    [presentation |-> JStr("texte"), _project_title |-> JStr("Z"),
     _page_debut |-> JInt(8), _page_fin |-> JInt(8)]

ProjectResponses ==
    {InvalidText,
     JsonDumps(JArray(<<>>)),
     JsonDumps(JObj(PlainRecord)),
     JsonDumps(JObj(ClashingRecord))}

(***************************************************************************)
(* parse_pdf_document.                                                     *)
(***************************************************************************)
Event(progress, status) == [progress |-> progress, status |-> status]

\* project_title[:50]
Slice50(s) == IF Len(s) <= 50 THEN s ELSE SubSeq(s, 1, 50)

\* the value passed to progress_callback by the outer except clause
FailureProgress == Frac(0, 1)

\* FailRun reporting the error twice, once with each message
FailRunTwice(msg) ==
    /\ events' = events \o <<Event(FailureProgress, "Erreur: " \o msg),
                             Event(FailureProgress,
                                   "Erreur: Erreur lors du traitement OCR: " \o msg)>>
    /\ outcome' = [kind |-> "raised", msg |-> "Erreur lors du traitement OCR: " \o msg]
    /\ pc' = "failed"

\* the outer except clause: report through the callback, raise to the caller
FailRun(msg) ==
    /\ events' = Append(events, Event(FailureProgress, "Erreur: " \o msg))
    /\ outcome' = [kind |-> "raised", msg |-> "Erreur lors du traitement OCR: " \o msg]
    /\ pc' = "failed"

\* CheckCredential without the test of an empty key
CheckCredentialKeyOnly ==
    /\ pc = "start"
    /\ \/ /\ credential = "absent"
          /\ FailRun("'MISTRAL_API_KEY'")
       \/ /\ credential # "absent"
          /\ events' = Append(events, Event(Frac(1, 10), "Upload du fichier vers Mistral..."))
          /\ pc' = "upload"
          /\ UNCHANGED outcome
    /\ UNCHANGED <<credential, log, calls, ocr_response, project_list_json, projects,
                   idx, parsed_data>>
    /\ UNCHANGED <<normVars, sessionVars>>

\* read the credential, build the client, announce the upload
CheckCredential ==
    /\ pc = "start"
    /\ \/ /\ credential = "absent"
          /\ FailRun("'MISTRAL_API_KEY'")
       \/ /\ credential = "empty"
          /\ FailRun("MISTRAL_API_KEY not found in environment variables")
       \/ /\ credential = "ok"
          /\ events' = Append(events, Event(Frac(1, 10), "Upload du fichier vers Mistral..."))
          /\ pc' = "upload"
          /\ UNCHANGED outcome
    /\ UNCHANGED <<credential, log, calls, ocr_response, project_list_json, projects,
                   idx, parsed_data>>
    /\ UNCHANGED <<normVars, sessionVars>>

\* UploadFile going on to the OCR after an upload that raised
UploadFileIgnoringError ==
    /\ pc = "upload"
    /\ \E m \in ApiErrors :
          calls' = Append(calls, [kind |-> "upload", result |-> Raised(m)])
    /\ events' = Append(events, Event(Frac(2, 10), "Traitement OCR du document..."))
    /\ pc' = "ocr"
    /\ UNCHANGED <<credential, log, ocr_response, project_list_json, projects, idx,
                   parsed_data, outcome>>
    /\ UNCHANGED <<normVars, sessionVars>>

\* client.files.upload, client.files.get_signed_url, announce the OCR
UploadFile ==
    /\ pc = "upload"
    /\ \/ \E m \in ApiErrors :
             /\ calls' = Append(calls, [kind |-> "upload", result |-> Raised(m)])
             /\ FailRun(m)
       \/ \E m \in ApiErrors :
             /\ calls' = calls \o <<[kind |-> "upload", result |-> Returned("file")],
                                    [kind |-> "signed_url", result |-> Raised(m)]>>
             /\ FailRun(m)
       \/ /\ calls' = calls \o <<[kind |-> "upload", result |-> Returned("file")],
                                 [kind |-> "signed_url", result |-> Returned("url")]>>
          /\ events' = Append(events, Event(Frac(2, 10), "Traitement OCR du document..."))
          /\ pc' = "ocr"
          /\ UNCHANGED outcome
    /\ UNCHANGED <<credential, log, ocr_response, project_list_json, projects, idx,
                   parsed_data>>
    /\ UNCHANGED <<normVars, sessionVars>>

\* client.ocr.process, clean_document, announce the list extraction
OcrProcess ==
    /\ pc = "ocr"
    /\ \/ \E m \in ApiErrors :
             /\ calls' = Append(calls, [kind |-> "ocr", result |-> Raised(m)])
             /\ FailRun(m)
             /\ UNCHANGED ocr_response
       \/ \E doc \in OcrDocuments :
             /\ calls' = Append(calls, [kind |-> "ocr", result |-> Returned(doc)])
             /\ ocr_response' = doc
             /\ events' = Append(events,
                                 Event(Frac(3, 10), "Extraction de la liste de projets..."))
             /\ pc' = "list"
             /\ UNCHANGED outcome
    /\ UNCHANGED <<credential, log, project_list_json, projects, idx, parsed_data>>
    /\ UNCHANGED <<normVars, sessionVars>>

\* client.chat.complete with the list prompt, announce the verification; the call
\* may return any text of `responses`
ListExtractionFrom(responses) ==
    /\ pc = "list"
    /\ LET clean_doc == clean_document(ocr_response)
       IN  \/ \E m \in ApiErrors :
                  /\ calls' = Append(calls, [kind |-> "list", payload |-> clean_doc,
                                             system |-> session_state["listPrompt"],
                                             result |-> Raised(m)])
                  /\ FailRun(m)
                  /\ UNCHANGED project_list_json
           \/ \E text \in responses :
                  /\ calls' = Append(calls, [kind |-> "list", payload |-> clean_doc,
                                             system |-> session_state["listPrompt"],
                                             result |-> Returned(text)])
                  /\ project_list_json' = text
                  /\ events' = Append(events,
                                      Event(Frac(4, 10), "Vérification des projets..."))
                  /\ pc' = "parse_list"
                  /\ UNCHANGED outcome
    /\ UNCHANGED <<credential, log, ocr_response, projects, idx, parsed_data>>
    /\ UNCHANGED <<normVars, sessionVars>>

ListExtraction == ListExtractionFrom(ListResponses)

\* NoProjects testing only for a missing list (None), not for an empty one
NoProjectsNoneOnly(liste) == liste.t = "null"

\* the test `if not projects`
NoProjects(liste) == ~Truthy(liste)

\* json.loads of the list, the "Liste" key, announce the per-project loop
ParseProjectList ==
    /\ pc = "parse_list"
    /\ LET loaded == JsonLoads(project_list_json)
           liste == DictGet(loaded.value.v, "Liste", JArray(<<>>))
       IN  \/ /\ loaded.raised
              /\ FailRun("Erreur lors du parsing de la liste de projets: " \o loaded.msg)
              /\ UNCHANGED <<projects, idx, parsed_data>>
           \/ /\ ~loaded.raised
              /\ loaded.value.t # "object"
              /\ FailRun("'list' object has no attribute 'get'")
              /\ UNCHANGED <<projects, idx, parsed_data>>
           \/ /\ ~loaded.raised
              /\ loaded.value.t = "object"
              /\ NoProjects(liste)
              /\ FailRun("Aucun projet trouvé dans le document")
              /\ UNCHANGED <<projects, idx, parsed_data>>
           \/ /\ ~loaded.raised
              /\ loaded.value.t = "object"
              /\ ~NoProjects(liste)
              /\ liste.t # "array"
              /\ FailRun("object of type '" \o liste.t \o "' has no len()")
              /\ UNCHANGED <<projects, idx, parsed_data>>
           \/ /\ ~loaded.raised
              /\ loaded.value.t = "object"
              /\ ~NoProjects(liste)
              /\ liste.t = "array"
              /\ projects' = liste.v
              /\ events' = Append(events,
                                  Event(Frac(5, 10),
                                        "Extraction des données pour "
                                            \o ToString(Len(liste.v)) \o " projet(s)..."))
              /\ parsed_data' = <<>>
              /\ idx' = 0
              /\ pc' = "loop"
              /\ UNCHANGED outcome
    /\ UNCHANGED <<credential, log, calls, ocr_response, project_list_json>>
    /\ UNCHANGED <<normVars, sessionVars>>

\* PagesDefined testing the first page only
PagesDefinedStartOnly(start_page, end_page) == Truthy(start_page)

\* the test of line 245, negated: both page bounds are truthy
PagesDefined(start_page, end_page) == Truthy(start_page) /\ Truthy(end_page)

\* LoopProgress counting the candidate being announced as already done
LoopProgressOneBased(i, n) == Frac(5 * n + 4 * (i + 1), 10 * n)

\* LoopProgress without the 0.5 the loop starts from
LoopProgressFromZero(i, n) == Frac(4 * i, 10 * n)

\* 0.5 + (idx * progress_per_project), with progress_per_project = 0.4 / n, as an
\* exact fraction (the float sum is monotone in idx as well)
LoopProgress(i, n) == Frac(5 * n + 4 * i, 10 * n)

\* TagRecord keeping the keys the model response already holds (setdefault)
TagRecordKeeping(project_data, project_title, start_page, end_page) ==
    LET keep(d, k, v) == IF k \in DOMAIN d THEN d ELSE DictSet(d, k, v)
    IN  keep(keep(keep(project_data, "_project_title", project_title),
                  "_page_debut", start_page),
             "_page_fin", end_page)

\* the three assignments that add the page range information to project_data
TagRecord(project_data, project_title, start_page, end_page) ==
    DictSet(DictSet(DictSet(project_data, "_project_title", project_title),
                    "_page_debut", start_page),
            "_page_fin", end_page)

\* AppendRecord putting the new record first (insert(0, ...))
PrependRecord(data, project_data) == <<project_data>> \o data

\* parsed_data.append(project_data)
AppendRecord(data, project_data) == Append(data, project_data)

\* SkipProject as it would be without the try/except of the loop body: the error
\* reaches the outer except clause and ends the run
SkipProjectAborting(evs, entry) ==
    /\ events' = Append(evs, Event(FailureProgress, "Erreur: " \o entry.msg))
    /\ outcome' = [kind |-> "raised", msg |-> "Erreur lors du traitement OCR: " \o entry.msg]
    /\ pc' = "failed"
    /\ UNCHANGED <<log, idx, parsed_data>>

\* an except clause of the loop body: print the warning, continue with the next
SkipProject(evs, entry) ==
    /\ events' = evs
    /\ log' = Append(log, entry)
    /\ idx' = idx + 1
    /\ pc' = "loop"
    /\ UNCHANGED <<parsed_data, outcome>>

\* one pass of the loop body, for the candidate at position idx
ProjectIteration ==
    /\ pc = "loop"
    /\ idx < Len(projects)
    /\ LET project == projects[idx + 1]
           start_page == DictGet(project.v, "PageDebut", JNull)
           end_page == DictGet(project.v, "PageFin", JNull)
           project_title ==
               DictGet(project.v, "Titre", JStr("Projet " \o ToString(idx + 1)))
           announced ==
               Append(events,
                      Event(LoopProgress(idx, Len(projects)),
                            "Analyse du projet " \o ToString(idx + 1) \o "/"
                                \o ToString(Len(projects)) \o ": "
                                \o Slice50(project_title.v) \o "..."))
           project_pages == clean_pages(ocr_response, start_page, end_page)
       IN  \/ /\ ~PagesDefined(start_page, end_page)
              /\ log' = Append(log, [kind |-> "ignored", title |-> project_title])
              /\ idx' = idx + 1
              /\ UNCHANGED <<pc, events, calls, parsed_data, outcome>>
           \/ /\ PagesDefined(start_page, end_page)
              /\ project_pages.raised
              /\ SkipProject(announced, [kind |-> "processing_error", n |-> idx + 1,
                                         msg |-> project_pages.msg])
              /\ UNCHANGED calls
           \/ /\ PagesDefined(start_page, end_page)
              /\ ~project_pages.raised
              /\ \E m \in ApiErrors :
                    /\ calls' = Append(calls, [kind |-> "project", idx |-> idx,
                                               payload |-> project_pages.value,
                                               system |-> session_state["REXPrompt"],
                                               result |-> Raised(m)])
                    /\ SkipProject(announced, [kind |-> "processing_error",
                                               n |-> idx + 1, msg |-> m])
           \/ /\ PagesDefined(start_page, end_page)
              /\ ~project_pages.raised
              /\ \E project_data_json \in ProjectResponses :
                    LET loaded == JsonLoads(project_data_json)
                    IN  /\ calls' = Append(calls, [kind |-> "project", idx |-> idx,
                                                   payload |-> project_pages.value,
                                                   system |-> session_state["REXPrompt"],
                                                   result |-> Returned(project_data_json)])
                        /\ IF loaded.raised
                           THEN SkipProject(announced,
                                            [kind |-> "parse_error",
                                             title |-> project_title, msg |-> loaded.msg])
                           ELSE IF loaded.value.t # "object"
                           THEN SkipProject(announced,
                                            [kind |-> "processing_error", n |-> idx + 1,
                                             msg |-> "list indices must be integers"])
                           ELSE /\ parsed_data' =
                                       AppendRecord(parsed_data,
                                                    TagRecord(loaded.value.v, project_title,
                                                              start_page, end_page))
                                /\ events' = announced
                                /\ log' = Append(log, [kind |-> "success",
                                                       title |-> project_title])
                                /\ idx' = idx + 1
                                /\ UNCHANGED <<pc, outcome>>
    /\ UNCHANGED <<credential, ocr_response, project_list_json, projects>>
    /\ UNCHANGED <<normVars, sessionVars>>

\* FinishLoop without the test of parsed_data: an empty list is returned too
FinishLoopUnchecked ==
    /\ pc = "loop"
    /\ idx = Len(projects)
    /\ events' = Append(events,
                        Event(Frac(10, 10),
                              "Traitement terminé - " \o ToString(Len(parsed_data))
                                  \o " projet(s) extrait(s)"))
    /\ outcome' = [kind |-> "returned", value |-> parsed_data]
    /\ pc' = "done"
    /\ UNCHANGED <<credential, log, calls, ocr_response, project_list_json, projects,
                   idx, parsed_data>>
    /\ UNCHANGED <<normVars, sessionVars>>

\* after the loop: fail on an empty parsed_data, else announce the end and return
FinishLoop ==
    /\ pc = "loop"
    /\ idx = Len(projects)
    /\ \/ /\ parsed_data = <<>>
          /\ FailRun("Aucun projet n'a pu être analysé avec succès")
       \/ /\ parsed_data # <<>>
          /\ events' = Append(events,
                              Event(Frac(10, 10),
                                    "Traitement terminé - " \o ToString(Len(parsed_data))
                                        \o " projet(s) extrait(s)"))
          /\ outcome' = [kind |-> "returned", value |-> parsed_data]
          /\ pc' = "done"
    /\ UNCHANGED <<credential, log, calls, ocr_response, project_list_json, projects,
                   idx, parsed_data>>
    /\ UNCHANGED <<normVars, sessionVars>>

(***************************************************************************)
(* One run of parse_pdf_document, from its call to its return or raise.    *)
(***************************************************************************)
NormIdle ==
    /\ nDoc = [pages |-> <<>>]
    /\ nStart = 0
    /\ nEnd = 0
    /\ nAll = <<>>
    /\ nOut = <<>>

PipelineStart ==
    /\ pc = "start"
    /\ events = <<>>
    /\ log = <<>>
    /\ calls = <<>>
    /\ ocr_response = [pages |-> <<>>]
    /\ project_list_json = InvalidText
    /\ projects = <<>>
    /\ idx = 0
    /\ parsed_data = <<>>
    /\ outcome = [kind |-> "running"]

\* the session of a run taken alone: the four files loaded, the upload requested
SessionProcessing ==
    /\ session_state = LoadedConfig
    /\ mpc = "processing"
    /\ filename = "rapport.pdf"

Init ==
    /\ credential \in Credentials
    /\ PipelineStart
    /\ NormIdle
    /\ SessionProcessing

Next ==
    \/ CheckCredential
    \/ UploadFile
    \/ OcrProcess
    \/ ListExtraction
    \/ ParseProjectList
    \/ ProjectIteration
    \/ FinishLoop

Spec == Init /\ [][Next]_vars

(***************************************************************************)
(* Runs of parse_pdf_document over longer candidate lists, of fewer kinds  *)
(* of candidate: one that is extracted, one that is excluded for a falsy   *)
(* page, one whose page is a text.                                         *)
(***************************************************************************)
LongListCandidates == {CandidateA, CandidateB, CandidateTextPage}

LongListResponses ==
    {JsonDumps(JObj([Liste |-> JArray(l)])) : l \in SeqsUpTo(LongListCandidates, MaxLongList)}

LongListExtraction == ListExtractionFrom(LongListResponses)

InitLoop ==
    /\ credential = "ok"
    /\ PipelineStart
    /\ NormIdle
    /\ SessionProcessing

NextLoop ==
    \/ CheckCredential
    \/ UploadFile
    \/ OcrProcess
    \/ LongListExtraction
    \/ ParseProjectList
    \/ ProjectIteration
    \/ FinishLoop

SpecLoop == InitLoop /\ [][NextLoop]_vars

(***************************************************************************)
(* The page normalizer as a pure function: every OCR page sequence up to   *)
(* MaxPages pages, in any order of index, and every range.                 *)
(***************************************************************************)
NormPages == {Page(i, md) : i \in 0..MaxIndex, md \in {"a", "b"}}
\* an OCR result holds each page index once
DistinctIndexes(s) == \A i, j \in DOMAIN s : s[i].index = s[j].index => i = j
NormDocuments ==
    {[pages |-> s] : s \in {q \in SeqsUpTo(NormPages, MaxPages) : DistinctIndexes(q)}}
NormBounds == 0..(MaxIndex + 2)

\* clean_document(nDoc)
NormalizeDocument ==
    /\ nAll = <<>>
    /\ nAll' = <<clean_document(nDoc)>>
    /\ UNCHANGED <<nDoc, nStart, nEnd, nOut>>
    /\ UNCHANGED <<pipelineVars, sessionVars>>

\* clean_pages(nDoc, nStart, nEnd)
NormalizeRange ==
    /\ nOut = <<>>
    /\ nOut' = <<clean_pages(nDoc, JInt(nStart), JInt(nEnd))>>
    /\ UNCHANGED <<nDoc, nStart, nEnd, nAll>>
    /\ UNCHANGED <<pipelineVars, sessionVars>>

InitNorm ==
    /\ credential = "ok"
    /\ PipelineStart
    /\ nDoc \in NormDocuments
    /\ nStart \in NormBounds
    /\ nEnd \in NormBounds
    /\ nAll = <<>>
    /\ nOut = <<>>
    /\ SessionProcessing

NextNorm ==
    \/ NormalizeDocument
    \/ NormalizeRange

SpecNorm == InitNorm /\ [][NextNorm]_vars

(***************************************************************************)
(* Vocabulary of the properties.                                           *)
(***************************************************************************)
Last(s) == s[Len(s)]

\* the positions (1-based) of the candidates the loop has gone through
Processed == 1..idx

\* the run has entered the per-project loop
LoopEntered == pc \in {"loop", "done"} \/ (pc = "failed" /\ projects # <<>>)

\* a page bound that is missing, null, zero or empty
FalsyBound(candidate, key) ==
    \/ key \notin DOMAIN candidate.v
    \/ candidate.v[key] \in {JNull, JInt(0), JStr("")}

HasPageBounds(candidate) ==
    ~FalsyBound(candidate, "PageDebut") /\ ~FalsyBound(candidate, "PageFin")

\* the per-project extraction calls made for the candidate at position i
ProjectCallsFor(i) ==
    {c \in DOMAIN calls : calls[c].kind = "project" /\ calls[c].idx = i - 1}

ProjectCalls == {c \in DOMAIN calls : calls[c].kind = "project"}

\* the call returned a text that is a JSON object
UsableResult(r) ==
    /\ ~r.raised
    /\ r.value.valid
    /\ r.value.value.t = "object"

\* the candidate at position i went into per-project extraction and failed there
FailedCandidate(i) ==
    /\ HasPageBounds(projects[i])
    /\ \A c \in ProjectCallsFor(i) : ~UsableResult(calls[c].result)

LogKinds(k) == {i \in DOMAIN log : log[i].kind = k}

(***************************************************************************)
(* C1: per-candidate isolation. A candidate whose per-project extraction   *)
(* fails (the call raises, the response is not JSON, or it is JSON but not *)
(* an object) is skipped and never ends the run inside the loop; every     *)
(* call that returned a JSON object has yielded a record; and the number   *)
(* of records is the number of candidates with page bounds minus the       *)
(* number of those that failed, whichever they are.                        *)
(***************************************************************************)
C1_Isolation ==
    LoopEntered =>
        /\ pc = "failed" => (idx = Len(projects) /\ parsed_data = <<>>)
        /\ Len(parsed_data) =
               Cardinality({c \in ProjectCalls : UsableResult(calls[c].result)})
        /\ Len(parsed_data) =
               Cardinality({i \in Processed : HasPageBounds(projects[i])})
                   - Cardinality({i \in Processed : FailedCandidate(i)})

\* a run that returned a record extracted after an earlier candidate had failed
C1_Witness ==
    /\ pc = "done"
    /\ \E i, j \in DOMAIN log :
          /\ i < j
          /\ log[i].kind \in {"processing_error", "parse_error"}
          /\ log[j].kind = "success"

(***************************************************************************)
(* Progress events.                                                        *)
(***************************************************************************)
ProgressZero == Frac(0, 1)
ProgressOne == Frac(1, 1)
ProgressHalf == Frac(1, 2)

\* the event emitted by the outer except clause
IsFailedEvent(e) == Len(e.status) >= 8 /\ SubSeq(e.status, 1, 8) = "Erreur: "

FailedEvents == {i \in DOMAIN events : IsFailedEvent(events[i])}

NonDecreasing(evs) ==
    \A i, j \in DOMAIN evs : i < j => FracLeq(evs[i].progress, evs[j].progress)

TriggeringMessage ==
    IF credential = "absent" THEN "'MISTRAL_API_KEY'"
    ELSE IF credential = "empty" THEN "MISTRAL_API_KEY not found in environment variables"
    ELSE IF projects # <<>> THEN "Aucun projet n'a pu être analysé avec succès"
    ELSE IF Last(calls).result.raised THEN Last(calls).result.msg
    ELSE IF ~project_list_json.valid
    THEN "Erreur lors du parsing de la liste de projets: "
             \o "Expecting value: line 1 column 1 (char 0)"
    ELSE IF project_list_json.value.t # "object"
    THEN "'list' object has no attribute 'get'"
    ELSE IF "Liste" \in DOMAIN project_list_json.value.v
            /\ project_list_json.value.v["Liste"].t = "int"
    THEN "object of type 'int' has no len()"
    ELSE "Aucun projet trouvé dans le document"

OneFailedEvent ==
    /\ FailedEvents = {Len(events)}
    /\ Last(events).status = "Erreur: " \o TriggeringMessage
    /\ outcome = [kind |-> "raised",
                  msg |-> "Erreur lors du traitement OCR: " \o TriggeringMessage]

NoExtractableProjects ==
    "Erreur lors du traitement OCR: Aucun projet n'a pu être analysé avec succès"

CompletionEvents == {i \in DOMAIN events : FracEq(events[i].progress, ProgressOne)}

(***************************************************************************)
(* C4: a run ends in success if and only if the per-project loop produced  *)
(* at least one record. A loop that ends with no record fails the run with *)
(* the no-extractable-projects error: no list, empty or not, is returned   *)
(* and no event of progress 1.0 is emitted.                                *)
(***************************************************************************)
C4_SuccessIffRecord ==
    /\ pc = "done" =>
           /\ parsed_data # <<>>
           /\ outcome = [kind |-> "returned", value |-> parsed_data]
           /\ CompletionEvents = {Len(events)}
    /\ pc # "done" =>
           /\ outcome.kind # "returned"
           /\ CompletionEvents = {}
    /\ (pc = "failed" /\ LoopEntered) =>
           /\ parsed_data = <<>>
           /\ idx = Len(projects)
           /\ outcome = [kind |-> "raised", msg |-> NoExtractableProjects]

\* a loop that ended with no record, one candidate filtered and one skipped on failure
C4_Witness ==
    /\ pc = "failed"
    /\ LoopEntered
    /\ LogKinds("ignored") # {}
    /\ LogKinds("parse_error") # {}

UnusableList(text) ==
    \/ ~text.valid
    \/ /\ text.value.t = "object"
       /\ \/ "Liste" \notin DOMAIN text.value.v
          \/ text.value.v["Liste"] = JArray(<<>>)

ListReturned == \E c \in DOMAIN calls : calls[c].kind = "list" /\ ~calls[c].result.raised

ListStageErrors ==
    {"Erreur lors du traitement OCR: Erreur lors du parsing de la liste de projets: "
         \o "Expecting value: line 1 column 1 (char 0)",
     "Erreur lors du traitement OCR: Aucun projet trouvé dans le document"}

(***************************************************************************)
(* C5: when the list-extraction response is not valid JSON, or is an       *)
(* object whose "Liste" key is missing or empty, the run fails at the list *)
(* stage: no per-project extraction call is made and no event of the       *)
(* per-project loop (progress 0.5 or above) is emitted.                    *)
(***************************************************************************)
C5_ListFailure ==
    (ListReturned /\ UnusableList(project_list_json)) =>
        /\ pc \in {"parse_list", "failed"}
        /\ pc = "failed" => (outcome.kind = "raised" /\ outcome.msg \in ListStageErrors)
        /\ ProjectCalls = {}
        /\ \A i \in DOMAIN events : ~FracLeq(ProgressHalf, events[i].progress)

\* a run that failed on an object whose "Liste" is an empty array
C5_Witness ==
    /\ pc = "failed"
    /\ ListReturned
    /\ project_list_json = JsonDumps(JObj([Liste |-> JArray(<<>>)]))

Excluded == {i \in Processed : ~HasPageBounds(projects[i])}

IsLoopEvent(e) == Len(e.status) >= 17 /\ SubSeq(e.status, 1, 17) = "Analyse du projet"

LoopEvents == {i \in DOMAIN events : IsLoopEvent(events[i])}

(***************************************************************************)
(* C6: a candidate whose PageDebut or PageFin is missing, zero or          *)
(* otherwise falsy is excluded with a warning: no per-project extraction   *)
(* call is made for it, no record comes from it and it does not end the    *)
(* run; the excluded candidates and the candidates passed on to            *)
(* per-project extraction (each announced by one loop event) add up to the *)
(* candidates gone through, and to the raw candidate count at the end.     *)
(***************************************************************************)
C6_FalsyExcluded ==
    LoopEntered =>
        /\ \A i \in Excluded : ProjectCallsFor(i) = {}
        /\ Cardinality(LogKinds("ignored")) = Cardinality(Excluded)
        /\ Cardinality(Excluded) + Cardinality(LoopEvents) = idx
        /\ pc \in {"done", "failed"} =>
               Cardinality(Excluded) + Cardinality(LoopEvents) = Len(projects)
        /\ Len(parsed_data) <= idx - Cardinality(Excluded)
        /\ \A k \in DOMAIN parsed_data :
               \E i \in Processed \ Excluded :
                   /\ parsed_data[k]["_page_debut"] = projects[i].v["PageDebut"]
                   /\ parsed_data[k]["_page_fin"] = projects[i].v["PageFin"]
        /\ pc = "failed" => idx = Len(projects)

\* a run that returned a record although a candidate without an end page was excluded
C6_Witness ==
    /\ pc = "done"
    /\ \E i \in Excluded : "PageFin" \notin DOMAIN projects[i].v
    /\ Len(parsed_data) = 1

ReservedKeys == {"_project_title", "_page_debut", "_page_fin"}

IsUsableCall(call) == call.kind = "project" /\ UsableResult(call.result)

\* the per-project calls that returned a JSON object, in the order made
UsableCalls == SelectSeq(calls, IsUsableCall)

TitleOf(candidate, position) ==
    IF "Titre" \in DOMAIN candidate.v THEN candidate.v["Titre"]
    ELSE JStr("Projet " \o ToString(position))

(***************************************************************************)
(* C7: every record of parsed_data, and so of the returned list, carries   *)
(* _project_title, _page_debut and _page_fin equal to the title (the       *)
(* default "Projet n" when the candidate has none) and the page bounds of  *)
(* the candidate it was extracted from, whatever the model response holds  *)
(* under these keys, and keeps the other keys of the response. A run over  *)
(* the list [A pages 1..3, B pages 0..5] that succeeds returns exactly one *)
(* record, tagged A, 1, 3.                                                 *)
(***************************************************************************)
C7_RecordsTagged ==
    LoopEntered =>
        /\ Len(parsed_data) = Len(UsableCalls)
        /\ \A k \in DOMAIN parsed_data :
               LET call == UsableCalls[k]
                   candidate == projects[call.idx + 1]
                   response == call.result.value.value.v
                   rec == parsed_data[k]
               IN  /\ HasPageBounds(candidate)
                   /\ DOMAIN rec = DOMAIN response \cup ReservedKeys
                   /\ rec["_project_title"] = TitleOf(candidate, call.idx + 1)
                   /\ rec["_page_debut"] = candidate.v["PageDebut"]
                   /\ rec["_page_fin"] = candidate.v["PageFin"]
                   /\ \A key \in DOMAIN response \ ReservedKeys : rec[key] = response[key]
        /\ (pc = "done" /\ projects = <<CandidateA, CandidateB>>) =>
               /\ Len(outcome.value) = 1
               /\ outcome.value[1]["_project_title"] = JStr("A")
               /\ outcome.value[1]["_page_debut"] = JInt(1)
               /\ outcome.value[1]["_page_fin"] = JInt(3)

\* the run over [A, B] returned, the response for A holding the reserved keys itself
C7_Witness ==
    /\ pc = "done"
    /\ projects = <<CandidateA, CandidateB>>
    /\ Last(calls).result = Returned(JsonDumps(JObj(ClashingRecord)))

\* the pages read back from a payload
PagesOf(text) == JsonLoads(text).value.pages

BothNormalized == nAll # <<>> /\ nOut # <<>>

(***************************************************************************)
(* C8: for every OCR document and every range [s, e] with s <= e, the      *)
(* pages of clean_pages(D, s, e) are exactly the pages of clean_document(D)*)
(* whose page_number lies in [s, e]: the same (page_number, content) pairs,*)
(* as often and in the same order; page_number is the OCR index plus one.  *)
(***************************************************************************)
C8_RangeIsFilter ==
    (BothNormalized /\ nStart <= nEnd) =>
        /\ ~nOut[1].raised
        /\ PagesOf(nOut[1].value) =
               SelectSeq(PagesOf(nAll[1]),
                         LAMBDA p : nStart <= p.page_number /\ p.page_number <= nEnd)
        /\ Len(PagesOf(nAll[1])) = Len(nDoc.pages)
        /\ \A i \in DOMAIN nDoc.pages :
               /\ PagesOf(nAll[1])[i].page_number = nDoc.pages[i].index + 1
               /\ PagesOf(nAll[1])[i].content = nDoc.pages[i].markdown

\* a range that keeps one page of a document of two and drops the other
C8_Witness ==
    /\ BothNormalized
    /\ nStart <= nEnd
    /\ Len(PagesOf(nAll[1])) = 2
    /\ Len(PagesOf(nOut[1].value)) = 1

StrictlyIncreasing(pages) ==
    \A i, j \in DOMAIN pages : i < j => pages[i].page_number < pages[j].page_number

(***************************************************************************)
(* C9 as stated: for every OCR document, also one whose pages are not in   *)
(* increasing order of index, the pages output by clean_document and by    *)
(* clean_pages have strictly increasing page_number.                       *)
(***************************************************************************)
C9_OutputSorted ==
    /\ nAll # <<>> => StrictlyIncreasing(PagesOf(nAll[1]))
    /\ (nOut # <<>> /\ ~nOut[1].raised) => StrictlyIncreasing(PagesOf(nOut[1].value))

(***************************************************************************)
(* C10 as stated: a candidate with truthy page bounds whose range selects  *)
(* no page of the OCR document yields no record, even when the extraction  *)
(* call returns a valid JSON object for the empty page payload.            *)
(***************************************************************************)
C10_EmptyRangeSkipped ==
    LoopEntered =>
        \A c \in ProjectCalls :
            (PagesOf(calls[c].payload) = <<>> /\ UsableResult(calls[c].result)) =>
                \A k \in DOMAIN parsed_data :
                    ~ /\ parsed_data[k]["_page_debut"] =
                             projects[calls[c].idx + 1].v["PageDebut"]
                      /\ parsed_data[k]["_page_fin"] =
                             projects[calls[c].idx + 1].v["PageFin"]

(***************************************************************************)
(* One session of the application: the script main is run again after each *)
(* interaction, st.session_state is kept from one run to the next, and the *)
(* button of the upload surface starts process_uploaded_file.              *)
(***************************************************************************)
ConfigKeys == {"REXSchema", "REXListSchema", "REXPrompt", "listPrompt"}

FileNames == {"rapport.pdf", "bilan.pdf"}

\* datetime.now().strftime("%d/%m/%Y %H:%M")
Now == "03/11/2026 09:00"

\* the loads of main, in order, files giving the state of the file each load reads:
\* a key already in the session is neither loaded nor tested, a falsy load stops the
\* script after it was stored
MainLoads(ss, files) ==
    LET s1 == IF "REXSchema" \in DOMAIN ss
              THEN [ss |-> ss, stopped |-> FALSE]
              ELSE LET v == load_schema("REX.schema.json", files["REXSchema"])
                   IN  [ss |-> DictSet(ss, "REXSchema", v), stopped |-> ~Truthy(v)]
        s2 == IF s1.stopped \/ "REXListSchema" \in DOMAIN s1.ss
              THEN s1
              ELSE LET v == load_schema("REXlist.schema.json", files["REXListSchema"])
                   IN  [ss |-> DictSet(s1.ss, "REXListSchema", v), stopped |-> ~Truthy(v)]
        s3 == IF s2.stopped \/ "REXPrompt" \in DOMAIN s2.ss
              THEN s2
              ELSE LET v == load_prompt("REXPrompt.md", files["REXPrompt"],
                                        s2.ss["REXSchema"])
                   IN  [ss |-> DictSet(s2.ss, "REXPrompt", v), stopped |-> ~Truthy(v)]
        s4 == IF s3.stopped \/ "listPrompt" \in DOMAIN s3.ss
              THEN s3
              ELSE LET v == load_prompt("listPrompt.md", files["listPrompt"],
                                        s3.ss["REXListSchema"])
                   IN  [ss |-> DictSet(s3.ss, "listPrompt", v), stopped |-> ~Truthy(v)]
    IN  s4

\* one run of main up to st.stop() or to the upload surface
RunMain ==
    /\ mpc = "run"
    /\ \E files \in [ConfigKeys -> FileStates] :
          LET loaded == MainLoads(session_state, files)
          IN  /\ session_state' = loaded.ss
              /\ mpc' = IF loaded.stopped THEN "stopped" ELSE "surface"
    /\ UNCHANGED <<filename, pipelineVars, normVars>>

\* the script is run again in the same session
Rerun ==
    /\ mpc \in {"stopped", "surface"}
    /\ mpc' = "run"
    /\ UNCHANGED <<session_state, filename, pipelineVars, normVars>>

\* the button of the upload surface: process_uploaded_file calls parse_pdf_document
ClickUpload ==
    /\ mpc = "surface"
    /\ mpc' = "processing"
    /\ \E name \in FileNames : filename' = name
    /\ pc' = "start"
    /\ events' = <<>>
    /\ log' = <<>>
    /\ calls' = <<>>
    /\ ocr_response' = [pages |-> <<>>]
    /\ project_list_json' = InvalidText
    /\ projects' = <<>>
    /\ idx' = 0
    /\ parsed_data' = <<>>
    /\ outcome' = [kind |-> "running"]
    /\ UNCHANGED <<credential, session_state, normVars>>

\* StoreResult storing under last_parsed_data what the failed run had extracted
ShowErrorStoringPartial ==
    /\ mpc = "processing"
    /\ pc = "failed"
    /\ session_state' = DictSet(session_state, "last_parsed_data",
                                [filename |-> filename, date |-> Now,
                                 projects |-> parsed_data])
    /\ mpc' = "surface"
    /\ UNCHANGED <<filename, pipelineVars, normVars>>

\* parse_pdf_document returned: the result is stored, then st.rerun()
StoreResult ==
    /\ mpc = "processing"
    /\ pc = "done"
    /\ session_state' = DictSet(session_state, "last_parsed_data",
                                [filename |-> filename, date |-> Now,
                                 projects |-> outcome.value])
    /\ mpc' = "run"
    /\ UNCHANGED <<filename, pipelineVars, normVars>>

\* parse_pdf_document raised: the error is shown, the script ends at the surface
ShowError ==
    /\ mpc = "processing"
    /\ pc = "failed"
    /\ mpc' = "surface"
    /\ UNCHANGED <<session_state, filename, pipelineVars, normVars>>

SessionListResponses ==
    {InvalidText,
     JsonDumps(JObj([Liste |-> JArray(<<CandidateA>>)])),
     JsonDumps(JObj([Liste |-> JArray(<<CandidateB>>)]))}

SessionListExtraction == ListExtractionFrom(SessionListResponses)

PipelineIdle ==
    /\ pc = "idle"
    /\ events = <<>>
    /\ log = <<>>
    /\ calls = <<>>
    /\ ocr_response = [pages |-> <<>>]
    /\ project_list_json = InvalidText
    /\ projects = <<>>
    /\ idx = 0
    /\ parsed_data = <<>>
    /\ outcome = [kind |-> "none"]

\* a new session: st.session_state is empty and main runs for the first time
InitSession ==
    /\ credential \in Credentials
    /\ PipelineIdle
    /\ NormIdle
    /\ session_state = [key \in {} |-> JNull]
    /\ mpc = "run"
    /\ filename = ""

NextSession ==
    \/ RunMain
    \/ Rerun
    \/ ClickUpload
    \/ CheckCredential
    \/ UploadFile
    \/ OcrProcess
    \/ SessionListExtraction
    \/ ParseProjectList
    \/ ProjectIteration
    \/ FinishLoop
    \/ StoreResult
    \/ ShowError

SpecSession == InitSession /\ [][NextSession]_vars

\* the record the loop builds from a call that returned a JSON object
RecordFrom(call) ==
    LET candidate == projects[call.idx + 1]
        response == call.result.value.value.v
    IN  [key \in DOMAIN response \cup ReservedKeys |->
            IF key = "_project_title" THEN TitleOf(candidate, call.idx + 1)
            ELSE IF key = "_page_debut" THEN candidate.v["PageDebut"]
            ELSE IF key = "_page_fin" THEN candidate.v["PageFin"]
            ELSE response[key]]

(***************************************************************************)
(* C11: the per-project extraction calls are made one candidate at a time, *)
(* in the order of the list, each for the candidate the loop stands at;    *)
(* and the records of parsed_data are, in order, the records of the calls  *)
(* that returned a JSON object, so they keep the relative order of their   *)
(* candidates whichever candidates are filtered or skipped in between.     *)
(***************************************************************************)
C11_OrderKept ==
    LoopEntered =>
        /\ \A c \in ProjectCalls :
               /\ calls[c].idx < idx
               /\ HasPageBounds(projects[calls[c].idx + 1])
        /\ \A c, d \in ProjectCalls : c < d => calls[c].idx < calls[d].idx
        /\ Len(parsed_data) = Len(UsableCalls)
        /\ \A k \in DOMAIN parsed_data : parsed_data[k] = RecordFrom(UsableCalls[k])

\* two different records returned, from the first and the third candidate, the second
\* one excluded
C11_Witness ==
    /\ pc = "done"
    /\ Len(projects) = 3
    /\ ~HasPageBounds(projects[2])
    /\ Len(parsed_data) = 2
    /\ parsed_data[1] # parsed_data[2]

\* the events of the stages of a run: Uploading (0.1) and every later one
RunProgressEvents == {i \in DOMAIN events : FracLeq(Frac(1, 10), events[i].progress)}

(***************************************************************************)
(* C14: when the API credential is absent or empty, no upload, OCR or      *)
(* extraction call is made and no progress event of a stage of the run     *)
(* (Uploading 0.1 or any later one) is emitted; all that the request       *)
(* emits is the report of the failure, and it ends failed.                 *)
(***************************************************************************)
C14_NoCredentialNoRun ==
    credential \in {"absent", "empty"} =>
        /\ calls = <<>>
        /\ RunProgressEvents = {}
        /\ pc \in {"start", "failed"}
        /\ \A i \in DOMAIN events : IsFailedEvent(events[i])

\* a request with an empty credential that was refused
C14_Witness ==
    /\ credential = "empty"
    /\ pc = "failed"
    /\ FailedEvents # {}

\* the place of a call's stage in a run
StageOf(kind) ==
    CASE kind = "upload" -> 1
      [] kind = "signed_url" -> 2
      [] kind = "ocr" -> 3
      [] kind = "list" -> 4
      [] kind = "project" -> 5

CallsOfKind(kind) == {c \in DOMAIN calls : calls[c].kind = kind}

\* the call was made and returned, before position c of the history
ReturnedBefore(kind, c) ==
    \E b \in CallsOfKind(kind) : b < c /\ ~calls[b].result.raised

\* the list call at position c returned an object with a non-empty array of candidates,
\* the one the loop goes through
ParsedToNonEmptyList(c) ==
    /\ ~calls[c].result.raised
    /\ calls[c].result.value.valid
    /\ calls[c].result.value.value.t = "object"
    /\ "Liste" \in DOMAIN calls[c].result.value.value.v
    /\ calls[c].result.value.value.v["Liste"].t = "array"
    /\ calls[c].result.value.value.v["Liste"].v # <<>>
    /\ calls[c].result.value.value.v["Liste"].v = projects

(***************************************************************************)
(* C16: the external calls of one run are strictly ordered: upload, signed *)
(* URL and OCR have returned before the list call is issued; the list call *)
(* has returned, and its response was parsed to a non-empty list, before   *)
(* the first per-project call; and after a failure of the upload, the OCR  *)
(* or the list extraction no later call is made.                           *)
(***************************************************************************)
C16_CallsOrdered ==
    /\ \A c, d \in DOMAIN calls : c < d => StageOf(calls[c].kind) <= StageOf(calls[d].kind)
    /\ \A kind \in {"upload", "signed_url", "ocr", "list"} : Cardinality(CallsOfKind(kind)) <= 1
    /\ \A c \in CallsOfKind("list") :
           /\ ReturnedBefore("upload", c)
           /\ ReturnedBefore("signed_url", c)
           /\ ReturnedBefore("ocr", c)
    /\ \A c \in CallsOfKind("ocr") :
           /\ ReturnedBefore("upload", c)
           /\ ReturnedBefore("signed_url", c)
    /\ \A c \in CallsOfKind("project") :
           \E b \in CallsOfKind("list") : b < c /\ ParsedToNonEmptyList(b)
    /\ \A c \in DOMAIN calls :
           (calls[c].kind # "project" /\ calls[c].result.raised) => c = Len(calls)
    /\ \A c \in CallsOfKind("list") :
           ~ParsedToNonEmptyList(c) => c = Len(calls)

\* a run that went through every stage and made per-project calls
C16_Witness ==
    /\ pc = "done"
    /\ Cardinality(ProjectCalls) = 2
    /\ CallsOfKind("list") # {}

\* the positions, in list order, of the candidates that pass the page filter
Positions == [i \in 1..Len(projects) |-> i]
PassesFilter(i) == HasPageBounds(projects[i])
AnnouncedPositions == SelectSeq(Positions, PassesFilter)

\* the events of a successful run between the loop start event and the last one
LoopSection == SubSeq(events, 6, Len(events) - 1)

\* the five stage events before the loop: 0.1, 0.2, 0.3, 0.4, 0.5
StagePrefix ==
    /\ Len(events) >= 6
    /\ \A k \in 1..5 : FracEq(events[k].progress, Frac(k, 10))
    /\ \A k \in 1..5 : ~IsLoopEvent(events[k])

\* progress b is progress a plus step
RisesBy(a, b, step) == (b[1] * a[2] - a[1] * b[2]) * step[2] = step[1] * a[2] * b[2]

\* what the statement and its amendment share: the stage events, one loop event in
\* [0.5, 0.9] per candidate that passes the filter, 1.0 last, every value in [0, 1]
ProgressOrder ==
    /\ StagePrefix
    /\ Len(LoopSection) = Len(AnnouncedPositions)
    /\ \A k \in DOMAIN LoopSection :
           /\ IsLoopEvent(LoopSection[k])
           /\ FracLeq(ProgressHalf, LoopSection[k].progress)
           /\ FracLeq(LoopSection[k].progress, Frac(9, 10))
    /\ FracEq(Last(events).progress, ProgressOne)
    /\ \A i \in DOMAIN events :
           /\ FracLeq(Frac(0, 1), events[i].progress)
           /\ FracLeq(events[i].progress, ProgressOne)

LoopOver == LoopEntered /\ idx = Len(projects)

TruthyCandidates == {i \in 1..Len(projects) : HasPageBounds(projects[i])}

(***************************************************************************)
(* C17: a run makes at most one list-extraction call and at most one       *)
(* per-project call per candidate, a failed or unparseable response never  *)
(* being retried; when the loop has run to its end the number of           *)
(* per-project calls equals the number of candidates with truthy page      *)
(* bounds, and the number of records never exceeds that number.            *)
(***************************************************************************)
C17_CallCounts ==
    /\ Cardinality(CallsOfKind("list")) <= 1
    /\ LoopEntered =>
           /\ \A i \in 1..Len(projects) : Cardinality(ProjectCallsFor(i)) <= 1
           /\ Len(parsed_data) <= Cardinality(TruthyCandidates)
           /\ pc = "done" => Len(outcome.value) <= Cardinality(TruthyCandidates)
           /\ LoopOver => Cardinality(ProjectCalls) = Cardinality(TruthyCandidates)

\* the schema stored under key was loaded
SchemaLoaded(key) ==
    /\ key \in DOMAIN session_state
    /\ session_state[key].t = "object"

\* the prompt stored under key was loaded and its schema injected
PromptLoaded(key) ==
    /\ key \in DOMAIN session_state
    /\ session_state[key].t = "text"
    /\ \A i \in DOMAIN session_state[key].v : session_state[key].v[i] # Placeholder

\* a load of one of the four failed in this session
LoadFailed == \E key \in ConfigKeys \cap DOMAIN session_state : session_state[key] = JNull

(***************************************************************************)
(* C12: across the reruns of main in one session, the upload surface, and  *)
(* so a pipeline run, is reached only when both schemas and both prompts   *)
(* were loaded successfully; once a load of one of the four has failed, no *)
(* later rerun goes past the configuration error: none proceeds with a     *)
(* missing schema or prompt or with a prompt whose placeholder was never   *)
(* replaced.                                                               *)
(***************************************************************************)
C12_SurfaceNeedsConfig ==
    /\ mpc \in {"surface", "processing"} =>
           /\ SchemaLoaded("REXSchema")
           /\ SchemaLoaded("REXListSchema")
           /\ PromptLoaded("REXPrompt")
           /\ PromptLoaded("listPrompt")
    /\ LoadFailed => mpc \in {"run", "stopped"}

\* the result stored in a session state, if any
Stored(ss) == IF "last_parsed_data" \in DOMAIN ss THEN <<ss["last_parsed_data"]>> ELSE <<>>

(***************************************************************************)
(* C13: over the runs of process_uploaded_file in one session, the step    *)
(* that ends a successful run replaces last_parsed_data as a whole by the  *)
(* filename and the complete list of records of that run, and no other     *)
(* step, of a running or of a failed run at whatever stage, changes the    *)
(* stored result: it stays the one of the most recent successful run.      *)
(***************************************************************************)
C13_StoredResult ==
    [][IF mpc = "processing" /\ pc = "done"
       THEN /\ Stored(session_state') =
                   <<[filename |-> filename, date |-> Now, projects |-> outcome.value]>>
            /\ outcome.value # <<>>
       ELSE Stored(session_state') = Stored(session_state)]_vars

\* a run that failed after per-project calls, the result of an earlier run on another
\* file being still the stored one
C13_Witness ==
    /\ mpc = "surface"
    /\ pc = "failed"
    /\ ProjectCalls # {}
    /\ "last_parsed_data" \in DOMAIN session_state
    /\ session_state["last_parsed_data"].filename # filename
    /\ session_state["last_parsed_data"].projects # <<>>

====
